---- MODULE Spec2Model ----
(***************************************************************************)
(* Model of the text-segmentation and field-extraction functions of        *)
(* streamlit_app.py: parse_ad_copy_text, format_ad_copy_table and          *)
(* format_structured_snippets, and of generate_assets, which calls the     *)
(* model twice, parses the second response and shows its sections.         *)
(*                                                                         *)
(* A Python str is modelled as a sequence of tokens.  A token is either a  *)
(* single character (":", " ", "\n", "-", "1", "x") or a whole word that   *)
(* the regular expressions of the program match as a literal               *)
(* ("AD COPY VARIATION", "SITELINKS", "Header", ...).  Word tokens hold no *)
(* leading or trailing whitespace and no colon, so str.strip(),            *)
(* str.endswith(':') and str.strip(':') act on whole tokens.               *)
(***************************************************************************)
EXTENDS Integers, Sequences, FiniteSets, TLC

VARIABLES raw_text, pc, parsed_output, reparsed, content, table, rendered,
          brief, adcopy, log, shown

\* the state of a run of generate_assets
genVars == <<brief, adcopy, log, shown>>

vars == <<raw_text, pc, parsed_output, reparsed, content, table, rendered,
          brief, adcopy, log, shown>>

(***************************************************************************)
(* Bounds of the model.                                                    *)
(***************************************************************************)
MaxChunks == 4

(***************************************************************************)
(* str helpers.                                                            *)
(***************************************************************************)
IsDigit(c) == c \in {"1", "2"}

\* str.upper() of one token
UpperTok(c) ==
  CASE c = "callouts" -> "CALLOUTS"
    [] c = "ad copy variation" -> "AD COPY VARIATION"
    [] c = "header" -> "HEADER"
    [] c = "headlines" -> "HEADLINES"
    [] c = "Headlines" -> "HEADLINES"
    [] c = "Descriptions" -> "DESCRIPTIONS"
    [] c = "Header" -> "HEADER"
    [] c = "structured snippets" -> "STRUCTURED SNIPPETS"
    [] c = "x" -> "X"
    [] c = "z" -> "Z"
    [] c = "y" -> "Y"
    [] OTHER -> c

Upper(s) == [i \in 1..Len(s) |-> UpperTok(s[i])]

RECURSIVE LStripSet(_, _)
LStripSet(s, cs) ==
  IF s # <<>> /\ Head(s) \in cs THEN LStripSet(Tail(s), cs) ELSE s

RECURSIVE RStripSet(_, _)
RStripSet(s, cs) ==
  IF s # <<>> /\ s[Len(s)] \in cs
  THEN RStripSet(SubSeq(s, 1, Len(s) - 1), cs) ELSE s

\* str.strip()
Strip(s) == RStripSet(LStripSet(s, {" ", "\n"}), {" ", "\n"})

\* str.strip(':')
StripColon(s) == RStripSet(LStripSet(s, {":"}), {":"})

\* str.endswith(':')
EndsWithColon(s) == s # <<>> /\ s[Len(s)] = ":"

(***************************************************************************)
(* The section pattern of parse_ad_copy_text,                              *)
(*   (AD COPY VARIATION \d+.*?):|SITELINKS:|STRUCTURED SNIPPETS:|CALLOUTS: *)
(* with re.IGNORECASE.                                                     *)
(***************************************************************************)
\* first alternative: the index of the colon that ends a match starting at
\* p, or 0.  \d+ takes the digits, .*? extends over anything but a newline
\* up to the first colon.
RECURSIVE FirstColonOnLine(_, _)
FirstColonOnLine(s, q) ==
  IF q > Len(s) THEN 0
  ELSE IF s[q] = ":" THEN q
  ELSE IF s[q] = "\n" THEN 0
  ELSE FirstColonOnLine(s, q + 1)

AdCopyMatchEnd(s, p) ==
  IF /\ p + 2 <= Len(s)
     /\ UpperTok(s[p]) = "AD COPY VARIATION"
     /\ s[p + 1] = " "
     /\ IsDigit(s[p + 2])
  THEN FirstColonOnLine(s, p + 3)
  ELSE 0

\* the alternatives without a capture group
PlainMatchEnd(s, p) ==
  IF /\ p + 1 <= Len(s)
     /\ UpperTok(s[p]) \in {"SITELINKS", "STRUCTURED SNIPPETS", "CALLOUTS"}
     /\ s[p + 1] = ":"
  THEN p + 1
  ELSE 0

\* end of the match of the whole pattern at p, 0 when there is none
MatchEnd(s, p) ==
  IF AdCopyMatchEnd(s, p) # 0 THEN AdCopyMatchEnd(s, p) ELSE PlainMatchEnd(s, p)

\* an element of the list re.split returns: a str, or None
Str(s) == [none |-> FALSE, str |-> s]

None == [none |-> TRUE, str |-> <<>>]

\* group 1 of the match at p: the text before the colon for the first
\* alternative, None for the others (the group did not take part)
MatchGroup(s, p) ==
  IF AdCopyMatchEnd(s, p) # 0
  THEN Str(SubSeq(s, p, AdCopyMatchEnd(s, p) - 1))
  ELSE None

RECURSIVE SplitFrom(_, _, _)
SplitFrom(s, p, last) ==
  IF p > Len(s) THEN << Str(SubSeq(s, last, Len(s))) >>
  ELSE IF MatchEnd(s, p) # 0
       THEN << Str(SubSeq(s, last, p - 1)), MatchGroup(s, p) >>
              \o SplitFrom(s, MatchEnd(s, p) + 1, MatchEnd(s, p) + 1)
       ELSE SplitFrom(s, p + 1, last)

\* a split that stops after the first match (re.split(..., maxsplit=1))
ReSplitFirstOnly(s) ==
  LET ps == {p \in 1..Len(s) : MatchEnd(s, p) # 0} IN
  IF ps = {} THEN << Str(s) >>
  ELSE LET p == CHOOSE q \in ps : \A r \in ps : q <= r IN
       << Str(SubSeq(s, 1, p - 1)), MatchGroup(s, p),
          Str(SubSeq(s, MatchEnd(s, p) + 1, Len(s))) >>

\* re.split(pattern, raw_text, flags=re.IGNORECASE)
ReSplit(s) == SplitFrom(s, 1, 1)

(***************************************************************************)
(* parse_ad_copy_text.  The dict it returns is a sequence of               *)
(* [title, body] records in insertion order, with distinct titles.         *)
(***************************************************************************)
Intro == << "Intro" >>

RawOutput == << "Raw Output" >>

TempPlaceholder == << "Temp Placeholder" >>

Returned(out) == [status |-> "returned", exc |-> "", output |-> out]

Raised(e) == [status |-> "raised", exc |-> e, output |-> <<>>]

HasKey(out, t) == \E j \in 1..Len(out) : out[j].title = t

\* output[t] = b
SetItem(out, t, b) ==
  IF HasKey(out, t)
  THEN [j \in 1..Len(out) |->
          IF out[j].title = t THEN [title |-> t, body |-> b] ELSE out[j]]
  ELSE Append(out, [title |-> t, body |-> b])

\* the fallback that keeps the stripped text
RawOutputStripped(raw) == Returned(<< [title |-> RawOutput, body |-> Strip(raw)] >>)

\* return {"Raw Output": raw_text}
RawOutputResult(raw) == Returned(<< [title |-> RawOutput, body |-> raw] >>)

\* the loop  for i in range(1, len(sections))  (sections is 1-based here,
\* so i runs from 2)
RECURSIVE ProcessSections(_, _, _, _)
ProcessSections(sections, i, current_title, output) ==
  IF i > Len(sections) THEN Returned(output)
  ELSE IF sections[i].none THEN Raised("AttributeError")
  ELSE LET section_part == Strip(sections[i].str) IN
       IF EndsWithColon(section_part)
       THEN LET t == StripColon(section_part) IN
            ProcessSections(sections, i + 1, t,
               IF HasKey(output, t) THEN output ELSE SetItem(output, t, <<>>))
       ELSE ProcessSections(sections, i + 1,
               IF Upper(current_title) \in
                    {<<"SITELINKS">>, <<"STRUCTURED SNIPPETS">>, <<"CALLOUTS">>}
               THEN TempPlaceholder ELSE current_title,
               SetItem(output, current_title, Strip(section_part)))

ParseAdCopyText(raw) ==
  LET sections == ReSplit(raw) IN
  IF Len(sections) < 2 THEN RawOutputResult(raw)
  ELSE ProcessSections(sections, 2, Intro, <<>>)

(***************************************************************************)
(* format_ad_copy_table.  Its two list comprehensions are written          *)
(*   h.strip().replace(/^- /, '')                                          *)
(* and /^- / is not a Python expression: the interpreter rejects the       *)
(* source with a SyntaxError before any statement runs, so no call of the  *)
(* function ever yields its lists.                                         *)
(***************************************************************************)
TableRaised(e) == [status |-> "raised", exc |-> e, headlines |-> <<>>, descriptions |-> <<>>]

FormatAdCopyTable(c) == TableRaised("SyntaxError")

(***************************************************************************)
(* format_structured_snippets.  What it shows is a sequence of items, a    *)
(* group (st.subheader and st.markdown) or a text block (st.code), each    *)
(* with the index of the block of snippet_blocks it was made from.         *)
(***************************************************************************)
\* \w
IsWordTok(c) == c \notin {":", " ", "\n", "-", "*"}

\* \bHeader: with re.IGNORECASE matches at p
HeaderMatchAt(s, p) ==
  /\ p + 1 <= Len(s)
  /\ UpperTok(s[p]) = "HEADER"
  /\ s[p + 1] = ":"
  /\ (p = 1 \/ ~IsWordTok(s[p - 1]))

\* re.split(r'\bHeader:', content, flags=re.IGNORECASE)
RECURSIVE HeaderSplitFrom(_, _, _)
HeaderSplitFrom(s, p, last) ==
  IF p > Len(s) THEN << SubSeq(s, last, Len(s)) >>
  ELSE IF HeaderMatchAt(s, p)
       THEN << SubSeq(s, last, p - 1) >> \o HeaderSplitFrom(s, p + 2, p + 2)
       ELSE HeaderSplitFrom(s, p + 1, last)

HeaderSplit(s) == HeaderSplitFrom(s, 1, 1)

\* str.split('\n')
RECURSIVE SplitLinesFrom(_, _, _)
SplitLinesFrom(s, p, last) ==
  IF p > Len(s) THEN << SubSeq(s, last, Len(s)) >>
  ELSE IF s[p] = "\n"
       THEN << SubSeq(s, last, p - 1) >> \o SplitLinesFrom(s, p + 1, p + 1)
       ELSE SplitLinesFrom(s, p + 1, last)

SplitLines(s) == SplitLinesFrom(s, 1, 1)

\* str.startswith('- ')
StartsWithBullet(v) == Len(v) >= 2 /\ v[1] = "-" /\ v[2] = " "

\* str.replace('- ', ''): every occurrence goes
RECURSIVE RemoveBullets(_)
RemoveBullets(v) ==
  IF v = <<>> THEN <<>>
  ELSE IF StartsWithBullet(v) THEN RemoveBullets(SubSeq(v, 3, Len(v)))
  ELSE << Head(v) >> \o RemoveBullets(Tail(v))

Group(h, vs, k) == [kind |-> "group", header |-> h, values |-> vs, text |-> <<>>, block |-> k]

Code(b, k) == [kind |-> "code", header |-> <<>>, values |-> <<>>, text |-> b, block |-> k]

\* the body of the loop for one block: the items it shows
RenderBlock(blk, k) ==
  LET block == Strip(blk) IN
  IF block = <<>> THEN <<>>
  ELSE LET raw_lines == SplitLines(block)
           lines == [i \in 1..Len(raw_lines) |-> Strip(raw_lines[i])]
           header_text == Strip(StripColon(lines[1]))
           rest == Tail(lines)
           bulleted == SelectSeq(rest, StartsWithBullet)
           values == [i \in 1..Len(bulleted) |-> Strip(RemoveBullets(bulleted[i]))]
       IN IF header_text # <<>> /\ values # <<>>
          THEN << Group(header_text, values, k) >>
          ELSE << Code(block, k) >>

\* for block in snippet_blocks, from the k-th on
RECURSIVE RenderBlocks(_, _)
RenderBlocks(blocks, k) ==
  IF k > Len(blocks) THEN <<>>
  ELSE RenderBlock(blocks[k], k) \o RenderBlocks(blocks, k + 1)

\* the loop that leaves out the text before the first Header:
FormatStructuredSnippetsSkipFirst(c) ==
  [status |-> "returned", items |-> RenderBlocks(HeaderSplit(c), 2)]

FormatStructuredSnippets(c) ==
  [status |-> "returned", items |-> RenderBlocks(HeaderSplit(c), 1)]

(***************************************************************************)
(* Inputs.                                                                 *)
(***************************************************************************)
SegChunks ==
  { <<"x">>, <<":">>, <<"\n">>, <<" ">>,
    <<"AD COPY VARIATION", " ", "1", ":">>,
    <<"ad copy variation", " ", "2", " ", "y", ":">>,
    <<"AD COPY VARIATION", " ", "1">>,
    <<"SITELINKS", ":">>, <<"STRUCTURED SNIPPETS", ":">>, <<"callouts", ":">> }

RECURSIVE Texts(_, _)
Texts(chunks, n) ==
  IF n = 0 THEN { <<>> }
  ELSE LET prev == Texts(chunks, n - 1) IN
       prev \cup { t \o c : t \in prev, c \in chunks }

RawTexts == Texts(SegChunks, MaxChunks)

AdChunks ==
  { <<"A">>, <<"\n">>, <<" ">>, <<"*", " ", "B">>, <<"-", " ", "A">>,
    <<"Headlines", ":">>, <<"headlines", ":", "\n", "-", " ", "B">>,
    <<"Descriptions", ":">> }

AdBodies == Texts(AdChunks, MaxChunks)

SnippetChunks ==
  { <<"A">>, <<":">>, <<"\n">>, <<" ">>, <<"-", " ">>,
    <<"\n", "-", " ", "B">>, <<"Header", ":">>, <<"header", ":", " ", "A">> }

SnippetBodies == Texts(SnippetChunks, MaxChunks)

NoResult == [status |-> "none", exc |-> "", output |-> <<>>]

NoTable == [status |-> "none", exc |-> "", headlines |-> <<>>, descriptions |-> <<>>]

NoItems == [status |-> "none", items |-> <<>>]

NoShown == [status |-> "none", exc |-> "", items |-> <<>>]

\* generate_assets is not running
GenIdle ==
  /\ brief = "none"
  /\ adcopy = "none"
  /\ log = <<>>
  /\ shown = NoShown

Init ==
  /\ raw_text \in RawTexts
  /\ pc = "start"
  /\ parsed_output = NoResult
  /\ reparsed = NoResult
  /\ content = <<>>
  /\ table = NoTable
  /\ rendered = NoItems
  /\ GenIdle

\* parsed_output = parse_ad_copy_text(raw_text)
CallParse ==
  /\ pc = "start"
  /\ parsed_output' = ParseAdCopyText(raw_text)
  /\ pc' = "parsed"
  /\ UNCHANGED <<raw_text, reparsed, content, table, rendered>>
  /\ UNCHANGED genVars

\* parse_ad_copy_text applied to the body of one returned section
CallReparse ==
  /\ pc = "parsed"
  /\ parsed_output.status = "returned"
  /\ \E j \in 1..Len(parsed_output.output) :
       /\ content' = parsed_output.output[j].body
       /\ reparsed' = ParseAdCopyText(parsed_output.output[j].body)
  /\ pc' = "reparsed"
  /\ UNCHANGED <<raw_text, parsed_output, table, rendered>>
  /\ UNCHANGED genVars

Next == CallParse \/ CallReparse

Spec == Init /\ [][Next]_vars

\* the state before format_ad_copy_table(content) is called
InitAdCopy ==
  /\ content \in AdBodies
  /\ pc = "start"
  /\ raw_text = <<>>
  /\ parsed_output = NoResult
  /\ reparsed = NoResult
  /\ table = NoTable
  /\ rendered = NoItems
  /\ GenIdle

\* format_ad_copy_table(content)
CallFormatAdCopyTable ==
  /\ pc = "start"
  /\ table' = FormatAdCopyTable(content)
  /\ pc' = "tabled"
  /\ UNCHANGED <<raw_text, parsed_output, reparsed, content, rendered>>
  /\ UNCHANGED genVars

NextAdCopy == CallFormatAdCopyTable

SpecAdCopy == InitAdCopy /\ [][NextAdCopy]_vars

\* the state before format_structured_snippets(content) is called
InitSnippets ==
  /\ content \in SnippetBodies
  /\ pc = "start"
  /\ raw_text = <<>>
  /\ parsed_output = NoResult
  /\ reparsed = NoResult
  /\ table = NoTable
  /\ rendered = NoItems
  /\ GenIdle

\* format_structured_snippets(content)
CallFormatStructuredSnippets ==
  /\ pc = "start"
  /\ rendered' = FormatStructuredSnippets(content)
  /\ pc' = "rendered"
  /\ UNCHANGED <<raw_text, parsed_output, reparsed, content, table>>
  /\ UNCHANGED genVars

NextSnippets == CallFormatStructuredSnippets

SpecSnippets == InitSnippets /\ [][NextSnippets]_vars

(***************************************************************************)
(* generate_assets.  The two calls of ai.models.generateContent are the    *)
(* points where it waits for the provider: a call returns a text, returns  *)
(* no text, or raises APIError or another exception.  log is the order in  *)
(* which the run called the provider, the parser and st.error.             *)
(***************************************************************************)
\* what one call of generateContent can come to
Outcomes == {"text", "empty", "APIError", "Exception"}

\* str.startswith("AD COPY VARIATION") of an upper-cased title
StartsWithAdCopy(t) == t # <<>> /\ UpperTok(t[1]) = "AD COPY VARIATION"

\* the branch of the display loop that one (title, content) item takes
Dispatch(title, body) ==
  IF title = RawOutput THEN "raw_output"
  ELSE IF body = <<>> THEN "skipped_empty"
  ELSE IF StartsWithAdCopy(title) THEN "ad_copy"
  ELSE IF Upper(title) = <<"SITELINKS">> THEN "code"
  ELSE IF Upper(title) = <<"STRUCTURED SNIPPETS">> THEN "snippets"
  ELSE IF Upper(title) = <<"CALLOUTS">> THEN "code"
  ELSE "not_shown"

Shown(t, b, h) == [title |-> t, body |-> b, how |-> h]

\* for title, content in parsed_output.items(): the items handled so far;
\* an exception of format_ad_copy_table ends the loop and the run
RECURSIVE DisplaySections(_, _, _)
DisplaySections(out, j, items) ==
  IF j > Len(out) THEN [status |-> "returned", exc |-> "", items |-> items]
  ELSE LET how == Dispatch(out[j].title, out[j].body)
           done == Append(items, Shown(out[j].title, out[j].body, how))
       IN IF how = "ad_copy" /\ FormatAdCopyTable(out[j].body).status = "raised"
          THEN [status |-> "raised",
                exc |-> FormatAdCopyTable(out[j].body).exc, items |-> done]
          ELSE DisplaySections(out, j + 1, done)

GenChunks ==
  { <<"z">>, <<"\n">>, <<"x", ":">>,
    <<"AD COPY VARIATION", " ", "1", ":">>,
    <<"AD COPY VARIATION", ":">>,
    <<"structured snippets", " ", "x", ":">>,
    <<"SITELINKS", ":">> }

\* the non-empty texts the second call can return
ResponseTexts == Texts(GenChunks, MaxChunks) \ { <<>> }

\* the state when generate_assets is entered
InitGen ==
  /\ pc = "validate_url"
  /\ raw_text = <<>>
  /\ parsed_output = NoResult
  /\ reparsed = NoResult
  /\ content = <<>>
  /\ table = NoTable
  /\ rendered = NoItems
  /\ GenIdle

\* 1. URL validation: urlparse raises ValueError or does not
ValidateUrl ==
  /\ pc = "validate_url"
  /\ \E valid \in BOOLEAN :
       IF valid
       THEN pc' = "brief" /\ log' = log
       ELSE pc' = "done" /\ log' = Append(log, "st.error")
  /\ UNCHANGED <<raw_text, parsed_output, reparsed, content, table, rendered,
                 brief, adcopy, shown>>

\* the first call when the check for an empty brief does not return
GenerateBriefNoReturn ==
  /\ pc = "brief"
  /\ \E o \in Outcomes :
       /\ brief' = o
       /\ IF o = "text"
          THEN pc' = "adcopy" /\ log' = Append(log, "generateContent brief")
          ELSE /\ pc' = IF o = "empty" THEN "adcopy" ELSE "done"
               /\ log' = log \o << "generateContent brief", "st.error" >>
  /\ UNCHANGED <<raw_text, parsed_output, reparsed, content, table, rendered,
                 adcopy, shown>>

\* 3. first call: the marketing brief
GenerateBrief ==
  /\ pc = "brief"
  /\ \E o \in Outcomes :
       /\ brief' = o
       /\ IF o = "text"
          THEN pc' = "adcopy" /\ log' = Append(log, "generateContent brief")
          ELSE /\ pc' = "done"
               /\ log' = log \o << "generateContent brief", "st.error" >>
  /\ UNCHANGED <<raw_text, parsed_output, reparsed, content, table, rendered,
                 adcopy, shown>>

\* 4. second call: the ad copy text
GenerateAdCopy ==
  /\ pc = "adcopy"
  /\ \E o \in Outcomes :
       /\ adcopy' = o
       /\ IF o = "text"
          THEN /\ raw_text' \in ResponseTexts
               /\ pc' = "display"
               /\ log' = Append(log, "generateContent adcopy")
          ELSE /\ raw_text' = raw_text
               /\ pc' = "done"
               /\ log' = log \o << "generateContent adcopy", "st.error" >>
  /\ UNCHANGED <<parsed_output, reparsed, content, table, rendered,
                 brief, shown>>

\* 5. parse the text and show the sections; an exception of the parser or
\* of an extractor is not caught
DisplayResults ==
  /\ pc = "display"
  /\ parsed_output' = ParseAdCopyText(raw_text)
  /\ log' = Append(log, "parse_ad_copy_text")
  /\ IF ParseAdCopyText(raw_text).status = "raised"
     THEN shown' = shown /\ pc' = "raised"
     ELSE /\ shown' = DisplaySections(ParseAdCopyText(raw_text).output, 1, <<>>)
          /\ pc' = IF shown'.status = "raised" THEN "raised" ELSE "done"
  /\ UNCHANGED <<raw_text, reparsed, content, table, rendered, brief, adcopy>>

NextGen == ValidateUrl \/ GenerateBrief \/ GenerateAdCopy \/ DisplayResults

SpecGen == InitGen /\ [][NextGen]_vars

(***************************************************************************)
(* What the claims about the segmenter speak of: the recognized markers of *)
(* an input, in order, and the text around them.                           *)
(***************************************************************************)
HasMarker(s) == \E p \in 1..Len(s) : MatchEnd(s, p) # 0

\* the start positions of the recognized markers, scanning left to right
RECURSIVE MarkerStarts(_, _)
MarkerStarts(s, p) ==
  IF p > Len(s) THEN <<>>
  ELSE IF MatchEnd(s, p) # 0
       THEN <<p>> \o MarkerStarts(s, MatchEnd(s, p) + 1)
       ELSE MarkerStarts(s, p + 1)

Markers(s) == MarkerStarts(s, 1)

\* the text of the marker at p, without its terminating colon
MarkerTitle(s, p) == SubSeq(s, p, MatchEnd(s, p) - 1)

\* the text before the first marker
Preceding(s) ==
  IF Markers(s) = <<>> THEN s ELSE SubSeq(s, 1, Markers(s)[1] - 1)

\* the trimmed text between the k-th marker and the next one or the end
PieceAfter(s, k) ==
  LET ms == Markers(s) IN
  Strip(SubSeq(s, MatchEnd(s, ms[k]) + 1,
               IF k < Len(ms) THEN ms[k + 1] - 1 ELSE Len(s)))

ParseReturned == pc # "start" /\ parsed_output.status = "returned"

\* C1: parse_ad_copy_text never raises: once called, it has returned a
\* result, for every input
CE_C1 == pc # "start" => parsed_output.status = "returned"

\* C2: every recognized marker of the input has its own section, titled by
\* the marker's text, whose body is the trimmed text up to the next marker
CE_C2 ==
  (ParseReturned /\ HasMarker(raw_text)) =>
    \A k \in 1..Len(Markers(raw_text)) :
      \E j \in 1..Len(parsed_output.output) :
        /\ parsed_output.output[j].title = MarkerTitle(raw_text, Markers(raw_text)[k])
        /\ parsed_output.output[j].body = PieceAfter(raw_text, k)

\* C3: sections are kept by position: k markers give k marker sections, in
\* input order, also when two markers have the same title
CE_C3 ==
  (ParseReturned /\ HasMarker(raw_text)) =>
    LET NotIntro(sec) == sec.title # Intro
        ms == SelectSeq(parsed_output.output, NotIntro)
    IN /\ Len(ms) = Len(Markers(raw_text))
       /\ \A k \in 1..Len(ms) :
            /\ ms[k].title = MarkerTitle(raw_text, Markers(raw_text)[k])
            /\ ms[k].body = PieceAfter(raw_text, k)

\* C4 as stated: an input without a marker gives the single section
\* "Raw Output" whose body is the whitespace-trimmed input
CE_C4 ==
  (pc # "start" /\ ~HasMarker(raw_text)) =>
    parsed_output = Returned(<< [title |-> RawOutput, body |-> Strip(raw_text)] >>)

\* C4 as amended: an input without a marker gives the single section
\* "Raw Output" whose body is the input itself, whitespace included
Thm_C4 ==
  (pc # "start" /\ ~HasMarker(raw_text)) =>
    parsed_output = Returned(<< [title |-> RawOutput, body |-> raw_text] >>)

\* a marker-free input with surrounding whitespace has been parsed
Wit_C4 ==
  /\ pc = "parsed"
  /\ ~HasMarker(raw_text)
  /\ Strip(raw_text) # raw_text
  /\ Strip(raw_text) # <<>>

\* C5: with at least one marker, a section "Intro" exists exactly when the
\* text before the first marker is not blank, and its body is that text
CE_C5 ==
  (ParseReturned /\ HasMarker(raw_text)) =>
    /\ HasKey(parsed_output.output, Intro) <=> (Strip(Preceding(raw_text)) # <<>>)
    /\ \A j \in 1..Len(parsed_output.output) :
         parsed_output.output[j].title = Intro =>
           parsed_output.output[j].body = Strip(Preceding(raw_text))

\* the sections written back with their markers, in order
RECURSIVE Reconstruct(_)
Reconstruct(out) ==
  IF out = <<>> THEN <<>>
  ELSE (IF Head(out).title = Intro THEN <<>> ELSE Head(out).title \o <<":">>)
         \o Head(out).body \o Reconstruct(Tail(out))

\* the input with every piece between markers trimmed
RECURSIVE TrimmedFrom(_, _)
TrimmedFrom(s, k) ==
  IF k > Len(Markers(s)) THEN <<>>
  ELSE MarkerTitle(s, Markers(s)[k]) \o <<":">> \o PieceAfter(s, k)
         \o TrimmedFrom(s, k + 1)

TrimmedInput(s) == Strip(Preceding(s)) \o TrimmedFrom(s, 1)

\* C6: no loss and no duplication: the sections, each preceded by its
\* marker, give back the input up to trimming, and the non-blank pieces of
\* the input are the non-blank bodies, each once and in order
CE_C6 ==
  (ParseReturned /\ HasMarker(raw_text)) =>
    LET NonBlank(t) == t # <<>>
        bodies == [j \in 1..Len(parsed_output.output) |-> parsed_output.output[j].body]
        pieces == << Strip(Preceding(raw_text)) >>
                    \o [k \in 1..Len(Markers(raw_text)) |-> PieceAfter(raw_text, k)]
    IN /\ Reconstruct(parsed_output.output) = TrimmedInput(raw_text)
       /\ SelectSeq(bodies, NonBlank) = SelectSeq(pieces, NonBlank)

\* C7: parsing the body of a returned section again finds no marker in it
\* and gives the single section "Raw Output"
Thm_C7 ==
  pc = "reparsed" =>
    /\ ~HasMarker(content)
    /\ reparsed.status = "returned"
    /\ Len(reparsed.output) = 1
    /\ reparsed.output[1].title = RawOutput

\* the non-blank body of a section of an input with two markers has been
\* parsed again
Wit_C7 ==
  /\ pc = "reparsed"
  /\ Len(Markers(raw_text)) >= 2
  /\ Len(parsed_output.output) >= 2
  /\ content # <<>>

(***************************************************************************)
(* What the claims about the ad-copy extractor speak of: the bulleted      *)
(* lines after a label.                                                    *)
(***************************************************************************)
\* the label w, followed by its colon, stands at p
LabelAt(s, p, w) == p + 1 <= Len(s) /\ UpperTok(s[p]) = w /\ s[p + 1] = ":"

HasLabel(s, w) == \E p \in 1..Len(s) : LabelAt(s, p, w)

\* the first position from p on where the label w stands, 0 if none
RECURSIVE FirstLabel(_, _, _)
FirstLabel(s, w, p) ==
  IF p > Len(s) THEN 0
  ELSE IF LabelAt(s, p, w) THEN p
  ELSE FirstLabel(s, w, p + 1)

\* the lines of a span that begin with "- " once trimmed, without the marker
BulletItems(span) ==
  LET ls == SplitLines(span)
      trimmed == [i \in 1..Len(ls) |-> Strip(ls[i])]
      kept == SelectSeq(trimmed, StartsWithBullet)
  IN [i \in 1..Len(kept) |-> Strip(SubSeq(kept[i], 3, Len(kept[i])))]

ExpectedHeadlines(s) ==
  LET h == FirstLabel(s, "HEADLINES", 1) IN
  IF h = 0 THEN <<>>
  ELSE LET d == FirstLabel(s, "DESCRIPTIONS", h + 2) IN
       BulletItems(SubSeq(s, h + 2, IF d = 0 THEN Len(s) ELSE d - 1))

ExpectedDescriptions(s) ==
  LET d == FirstLabel(s, "DESCRIPTIONS", 1) IN
  IF d = 0 THEN <<>> ELSE BulletItems(SubSeq(s, d + 2, Len(s)))

\* C8: headlines are the "- " lines between the Headlines: label and the
\* next Descriptions: label (or the end), descriptions the "- " lines after
\* the Descriptions: label, each without its marker; other lines are in
\* neither list
CE_C8 ==
  pc = "tabled" =>
    /\ table.status = "returned"
    /\ table.headlines = ExpectedHeadlines(content)
    /\ table.descriptions = ExpectedDescriptions(content)

\* C9: a missing label gives an empty list for its field and leaves the
\* other field as it is; no body makes the extractor raise
CE_C9 ==
  pc = "tabled" =>
    /\ table.status # "raised"
    /\ ~HasLabel(content, "HEADLINES") => table.headlines = <<>>
    /\ ~HasLabel(content, "DESCRIPTIONS") => table.descriptions = <<>>
    /\ (~HasLabel(content, "HEADLINES") /\ HasLabel(content, "DESCRIPTIONS"))
         => table.descriptions = ExpectedDescriptions(content)
    /\ (HasLabel(content, "HEADLINES") /\ ~HasLabel(content, "DESCRIPTIONS"))
         => table.headlines = ExpectedHeadlines(content)

(***************************************************************************)
(* What the claims about the snippet extractor speak of.                   *)
(***************************************************************************)
HasHeader(s) == \E p \in 1..Len(s) : HeaderMatchAt(s, p)

\* the text before the first Header: token
BeforeFirstHeader(s) ==
  LET p == CHOOSE q \in 1..Len(s) :
             HeaderMatchAt(s, q) /\ \A r \in 1..(q - 1) : ~HeaderMatchAt(s, r)
  IN SubSeq(s, 1, p - 1)

\* C10 as stated: nothing that is shown comes from the text before the
\* first Header: token
CE_C10 ==
  (pc = "rendered" /\ HasHeader(content)) =>
    \A i \in 1..Len(rendered.items) : rendered.items[i].block # 1

\* C10 as amended: the text before the first Header: token is dropped only
\* when it is blank; otherwise it is the first thing shown, as a group when
\* its first line is a header followed by "- " lines and as its trimmed
\* text when not
Thm_C10 ==
  (pc = "rendered" /\ HasHeader(content)) =>
    LET pre == Strip(BeforeFirstHeader(content))
        items == rendered.items
    IN IF pre = <<>>
       THEN \A i \in 1..Len(items) : items[i].block # 1
       ELSE /\ Len(items) >= 1
            /\ items[1].block = 1
            /\ \A i \in 2..Len(items) : items[i].block # 1
            /\ items[1].kind = "code" => items[1].text = pre
            /\ items[1].kind = "group" =>
                 /\ items[1].header = Strip(StripColon(Strip(SplitLines(pre)[1])))
                 /\ items[1].values # <<>>

\* a body whose text before the first Header: token holds a "- " line has
\* been rendered, and that text came out as a group
Wit_C10 ==
  /\ pc = "rendered"
  /\ HasHeader(content)
  /\ Strip(BeforeFirstHeader(content)) # <<>>
  /\ Len(rendered.items) >= 2
  /\ rendered.items[1].kind = "group"
  /\ rendered.items[1].block = 1

\* the "- " lines after the first line of a block, each without its leading
\* marker and trimmed
ExpectedValues(blk) ==
  LET ls == SplitLines(Strip(blk))
  IN BulletItems(SubSeq(Strip(blk), Len(ls[1]) + 2, Len(Strip(blk))))

\* C11: the values of the group made from a block after a Header: token are
\* its "- " lines with only the leading marker removed, so a value keeps a
\* "- " that stands inside it
CE_C11 ==
  pc = "rendered" =>
    \A i \in 1..Len(rendered.items) :
      (rendered.items[i].kind = "group" /\ rendered.items[i].block >= 2) =>
        rendered.items[i].values =
          ExpectedValues(HeaderSplit(content)[rendered.items[i].block])

\* the titles of the recognized markers of s
MarkerTitles(s) ==
  { MarkerTitle(s, Markers(s)[k]) : k \in 1..Len(Markers(s)) }

\* C14: every key of the result is "Raw Output", "Intro" or the text of a
\* recognized marker of the input; text between markers is never a key and
\* "Temp Placeholder" is never a key
CE_C14 ==
  ParseReturned =>
    \A j \in 1..Len(parsed_output.output) :
      /\ parsed_output.output[j].title \in
           {RawOutput, Intro} \cup MarkerTitles(raw_text)
      /\ parsed_output.output[j].title # TempPlaceholder

(***************************************************************************)
(* What the claims about generate_assets speak of.                         *)
(***************************************************************************)
\* the branches the dispatch rule allows for a title: a case-insensitive
\* prefix match, the first match wins, everything else is shown verbatim
AllowedHow(title) ==
  IF StartsWithAdCopy(title) THEN {"ad_copy"}
  ELSE IF title # <<>> /\ UpperTok(title[1]) = "STRUCTURED SNIPPETS" THEN {"snippets"}
  ELSE {"code", "raw_output"}

\* C12: every section the display loop handles, other than Intro and with a
\* body that is not empty, goes to the extractor its title's prefix names
\* or is shown verbatim; none is left unshown
CE_C12 ==
  shown.status # "none" =>
    \A i \in 1..Len(shown.items) :
      (shown.items[i].title # Intro /\ shown.items[i].body # <<>>) =>
        shown.items[i].how \in AllowedHow(shown.items[i].title)

Logged(e) == \E i \in 1..Len(log) : log[i] = e

\* e comes before f wherever both are in the log
Before(e, f) ==
  \A i, j \in 1..Len(log) : (log[i] = e /\ log[j] = f) => i < j

Failed(o) == o \in {"empty", "APIError", "Exception"}

\* C13: the parser runs only after the second call returned a text that is
\* not empty, the second call is made only after the first returned one;
\* a call that raises or returns nothing is followed by an error message,
\* and then no further call is made and the parser does not run
Thm_C13 ==
  /\ Logged("parse_ad_copy_text") => (adcopy = "text" /\ raw_text # <<>>)
  /\ Logged("generateContent adcopy") => brief = "text"
  /\ Before("generateContent brief", "generateContent adcopy")
  /\ Before("generateContent adcopy", "parse_ad_copy_text")
  /\ Failed(brief) =>
       /\ log = << "generateContent brief", "st.error" >>
       /\ pc = "done"
       /\ adcopy = "none"
  /\ Failed(adcopy) =>
       /\ log = << "generateContent brief", "generateContent adcopy", "st.error" >>
       /\ pc = "done"
       /\ parsed_output = NoResult

\* a run in which both calls returned a text and the parser ran on the
\* second one
Wit_C13 ==
  /\ brief = "text"
  /\ adcopy = "text"
  /\ log = << "generateContent brief", "generateContent adcopy", "parse_ad_copy_text" >>
  /\ parsed_output.status = "returned"

====
